---- MODULE Spec2Model ----
(***************************************************************************)
(* Model of shiki-map (src/main.py): the per-title viewing state machine   *)
(* HistoryItem.edit, the ledger History.process, and the two-pointer       *)
(* windowed aggregation of History.show.                                   *)
(*                                                                         *)
(* An action text is a sequence of words (the text split at spaces).  The  *)
(* words the code looks for are kept apart by kind:                        *)
(*   "rem"  the phrase 'удалено из списка'                                 *)
(*   "view" a word holding 'просмотр'                                      *)
(*   "po"   the word 'по' (the range connective is ' по ', with spaces)    *)
(*   "ep"   a word starting with 'эпизод'                                  *)
(*   "num"  a bare run of digits, d                                        *)
(*   "ord"  a run of digits d followed by '-й' or '-го'                    *)
(* Digits are kept as digit sequences; int() converts them.                *)
(***************************************************************************)
EXTENDS Integers, Sequences, FiniteSets, TLC

VARIABLES items, pc, processed, today, call,
          span, step, dates, episodes, current_date, left, right, keys, vals,
          series

vars == <<items, pc, processed, today, call,
          span, step, dates, episodes, current_date, left, right, keys, vals,
          series>>

showVars == <<span, step, dates, episodes, current_date, left, right, keys,
              vals, series>>

\* ------------------------------------------------------------------ bounds
MaxTokens == 5
MaxEntries == 3
MaxEvents == 3

\* ------------------------------------------------------------- action texts
Tok(k, d) == [k |-> k, d |-> d]
REM == Tok("rem", <<>>)
VIEW == Tok("view", <<>>)
PO == Tok("po", <<>>)
EP == Tok("ep", <<>>)
NUM(d) == Tok("num", d)
ORD(d) == Tok("ord", d)

\* int(): a run of decimal digits to its value
RECURSIVE int(_)
int(ds) == IF Len(ds) = 0 THEN 0
           ELSE 10 * int(SubSeq(ds, 1, Len(ds) - 1)) + ds[Len(ds)]

\* action.find('удалено из списка') != -1
find_removed(action) == \E i \in 1..Len(action) : action[i].k = "rem"

\* action.find('просмотр') != -1
find_viewed(action) == \E i \in 1..Len(action) : action[i].k = "view"

\* action.find(' по ') != -1 : the word needs a space on both sides, so it is
\* neither the first nor the last word of the text
find_range(action) == \E i \in 2..(Len(action) - 1) : action[i].k = "po"

\* EPISODES_COUNT_REGEX.findall(action): every run of digits directly followed
\* by ' эпизод', in text order
RECURSIVE EPISODES_COUNT_REGEX(_)
EPISODES_COUNT_REGEX(action) ==
    IF Len(action) < 2 THEN <<>>
    ELSE LET rest == EPISODES_COUNT_REGEX(Tail(action))
         IN IF action[1].k = "num" /\ action[2].k = "ep"
            THEN <<action[1].d>> \o rest
            ELSE rest

\* SINGLE_EPISODE_REGEX.findall(action): the digits of every ordinal marker,
\* in text order
RECURSIVE SINGLE_EPISODE_REGEX(_)
SINGLE_EPISODE_REGEX(action) ==
    IF Len(action) = 0 THEN <<>>
    ELSE LET rest == SINGLE_EPISODE_REGEX(Tail(action))
         IN IF action[1].k = "ord" THEN <<action[1].d>> \o rest ELSE rest

\* ------------------------------------------------------- Duration Lookup
Hrefs == {"/a", "/b"}
Titles == {"A", "B"}
None == "None"

\* INFO_CACHE: href -> (episodes, duration).  "/a" is a finished 12-episode
\* title of 30-minute episodes; "/b" is a title whose page gives 0 episodes.
INFO_CACHE == [h \in Hrefs |-> IF h = "/a" THEN <<12, 30>> ELSE <<0, 20>>]

get_duration_info(href) == INFO_CACHE[href]

\* ------------------------------------------------------------ HistoryItem
\* clear as a removal that keeps the progress within the cycle
clear_keeps_episode(self) == [self EXCEPT !.timestamps = <<>>,
                                          !.total_views = 0]

\* clear as a removal that keeps the count of completed cycles
clear_keeps_views(self) == [self EXCEPT !.timestamps = <<>>,
                                        !.current_episode = 0]

\* HistoryItem.clear
clear(self) == [self EXCEPT !.timestamps = <<>>,
                            !.current_episode = 0,
                            !.total_views = 0]

\* HistoryItem.__init__
HistoryItem(href) ==
    clear([href |-> href, timestamps |-> <<>>, current_episode |-> 0,
           total_views |-> 0])

\* what edit hands back: the record after the call, the returned tuple, the
\* message of the exception raised ("" when it returns), and the hrefs it
\* called get_duration_info with
Returned(self, ret) ==
    [self |-> self, ret |-> ret, exc |-> "", lookups |-> {}]
Raised(self, msg) ==
    [self |-> self, ret |-> <<>>, exc |-> msg, lookups |-> {}]

\* line 109: the outcome of a path that called get_duration_info(href)
looked_up(r, href) == [r EXCEPT !.lookups = @ \cup {href}]

\* progress with current_episode set to ep_count rather than raised by it
progress_overwrites(self, date, ep_count) ==
    Returned([self EXCEPT !.timestamps = Append(@, <<date, ep_count>>),
                          !.current_episode = ep_count],
             <<1, ep_count>>)

\* progress that closes the cycle when ep_count would carry current_episode
\* past a known total
progress_routes_completion(self, date, ep_count) ==
    LET total_episodes == get_duration_info(self.href)[1]
    IN IF total_episodes > 0 /\ self.current_episode + ep_count > total_episodes
       THEN Returned([self EXCEPT
                         !.timestamps =
                             Append(@, <<date,
                                         total_episodes - self.current_episode>>),
                         !.current_episode = 0,
                         !.total_views = @ + 1],
                     <<2, total_episodes - self.current_episode,
                       self.total_views + 1>>)
       ELSE Returned([self EXCEPT
                         !.timestamps = Append(@, <<date, ep_count>>),
                         !.current_episode = @ + ep_count],
                     <<1, ep_count>>)

\* lines 91-93 and 105-107: record ep_count episodes
progress(self, date, ep_count) ==
    Returned([self EXCEPT !.timestamps = Append(@, <<date, ep_count>>),
                          !.current_episode = @ + ep_count],
             <<1, ep_count>>)

\* lines 88-93: ep_count = int(ep_count_match[0].split(' ')[0])
count_branch(self, date, ep_count_match) ==
    progress(self, date, int(ep_count_match[1]))

\* the list counted as a set: a repeated ordinal counts once
list_count_distinct(ep_match) ==
    Cardinality({ep_match[i] : i \in 1..Len(ep_match)})

\* line 99: ep_count = len(ep_match)
list_count(ep_match) == Len(ep_match)

\* line 104: ep_count = int(ep_match[1]) - int(ep_match[0]) + 1
range_count(ep_match) == int(ep_match[2]) - int(ep_match[1]) + 1

\* lines 96-107
ordinal_branch(self, action, date, ep_match) ==
    IF ~find_range(action)
    THEN progress(self, date, list_count(ep_match))
    ELSE IF Len(ep_match) # 2
         THEN Raised(self, "Invalid action (episode range)")
         ELSE progress(self, date, range_count(ep_match))

\* complete without the reset of line 114
complete_keeps_episode(self, date) ==
    LET total_episodes == get_duration_info(self.href)[1]
        ep_count == total_episodes - self.current_episode
    IN looked_up(
       IF total_episodes = 0
       THEN Raised(self, "Trying to complete on-going anime")
       ELSE Returned([self EXCEPT !.timestamps = Append(@, <<date, ep_count>>),
                                  !.total_views = @ + 1],
                     <<2, ep_count, self.total_views + 1>>),
       self.href)

\* complete with the event appended before the total is looked at
complete_appends_first(self, date) ==
    LET total_episodes == get_duration_info(self.href)[1]
        ep_count == total_episodes - self.current_episode
        logged == [self EXCEPT !.timestamps = Append(@, <<date, ep_count>>)]
    IN looked_up(
       IF total_episodes = 0
       THEN Raised(logged, "Trying to complete on-going anime")
       ELSE Returned([logged EXCEPT !.current_episode = 0,
                                    !.total_views = @ + 1],
                     <<2, ep_count, self.total_views + 1>>),
       self.href)

\* complete logging the whole total, the episodes already seen included
complete_logs_total(self, date) ==
    LET total_episodes == get_duration_info(self.href)[1]
        ep_count == total_episodes - self.current_episode
    IN looked_up(
       IF total_episodes = 0
       THEN Raised(self, "Trying to complete on-going anime")
       ELSE Returned([self EXCEPT !.timestamps =
                                      Append(@, <<date, total_episodes>>),
                                  !.current_episode = 0,
                                  !.total_views = @ + 1],
                     <<2, ep_count, self.total_views + 1>>),
       self.href)

\* lines 109-116
complete(self, date) ==
    LET total_episodes == get_duration_info(self.href)[1]
        ep_count == total_episodes - self.current_episode
    IN looked_up(
       IF total_episodes = 0
       THEN Raised(self, "Trying to complete on-going anime")
       ELSE Returned([self EXCEPT !.timestamps = Append(@, <<date, ep_count>>),
                                  !.current_episode = 0,
                                  !.total_views = @ + 1],
                     <<2, ep_count, self.total_views + 1>>),
       self.href)

\* edit with the ordinal markers tried before the explicit count
edit_ordinals_first(self, action, date) ==
    IF find_removed(action) THEN Returned(clear(self), <<-1>>)
    ELSE IF ~find_viewed(action) THEN Returned(self, <<0>>)
    ELSE IF Len(SINGLE_EPISODE_REGEX(action)) > 0
         THEN ordinal_branch(self, action, date, SINGLE_EPISODE_REGEX(action))
    ELSE IF Len(EPISODES_COUNT_REGEX(action)) > 0
         THEN count_branch(self, date, EPISODES_COUNT_REGEX(action))
    ELSE complete(self, date)

\* edit without the check of lines 84-85 for a viewing phrase
edit_without_viewing_check(self, action, date) ==
    IF find_removed(action) THEN Returned(clear(self), <<-1>>)
    ELSE IF Len(EPISODES_COUNT_REGEX(action)) > 0
         THEN count_branch(self, date, EPISODES_COUNT_REGEX(action))
    ELSE IF Len(SINGLE_EPISODE_REGEX(action)) > 0
         THEN ordinal_branch(self, action, date, SINGLE_EPISODE_REGEX(action))
    ELSE complete(self, date)

\* HistoryItem.edit
edit(self, action, date) ==
    IF find_removed(action) THEN Returned(clear(self), <<-1>>)
    ELSE IF ~find_viewed(action) THEN Returned(self, <<0>>)
    ELSE IF Len(EPISODES_COUNT_REGEX(action)) > 0
         THEN count_branch(self, date, EPISODES_COUNT_REGEX(action))
    ELSE IF Len(SINGLE_EPISODE_REGEX(action)) > 0
         THEN ordinal_branch(self, action, date, SINGLE_EPISODE_REGEX(action))
    ELSE complete(self, date)

\* ---------------------------------------------------------------- History
\* a log line: what process reads from one .b-user_history-line element
LogLine(title, href, action, date) ==
    [title |-> title, href |-> href, action |-> action, date |-> date]

NoLine == LogLine("", None, <<>>, 0)
NoItem == HistoryItem(None)

\* the last call of process: its line, whether it returned at line 125
\* (skipped), the ledger and the record as edit found them, what edit
\* returned or raised, and the hrefs get_duration_info was called with
NoCall == [kind |-> "none", line |-> NoLine, items_before |-> <<>>,
           before |-> NoItem, ret |-> <<>>, exc |-> "", lookups |-> {}]

\* self.items[title] = item
put(its, title, item) ==
    [t \in (DOMAIN its) \cup {title} |-> IF t = title THEN item ELSE its[t]]

\* process with the record created before the link is looked at
process_creates_first(its, line) ==
    LET its1 == IF line.title \notin DOMAIN its
                THEN put(its, line.title, HistoryItem(line.href))
                ELSE its
    IN IF line.href = None
       THEN [items |-> its1,
             call |-> [kind |-> "skip", line |-> line, items_before |-> its,
                       before |-> NoItem, ret |-> <<>>, exc |-> "",
                       lookups |-> {}]]
       ELSE LET r == edit(its1[line.title], line.action, line.date)
            IN [items |-> put(its1, line.title, r.self),
                call |-> [kind |-> "edit", line |-> line, items_before |-> its,
                          before |-> its1[line.title], ret |-> r.ret,
                          exc |-> r.exc, lookups |-> r.lookups]]

\* History.process, lines 123-136: the ledger and the call record after it
process(its, line) ==
    IF line.href = None
    THEN [items |-> its,
          call |-> [kind |-> "skip", line |-> line, items_before |-> its,
                    before |-> NoItem, ret |-> <<>>, exc |-> "",
                    lookups |-> {}]]
    ELSE LET its1 == IF line.title \notin DOMAIN its
                     THEN put(its, line.title, HistoryItem(line.href))
                     ELSE its
             r == edit(its1[line.title], line.action, line.date)
         IN [items |-> put(its1, line.title, r.self),
             call |-> [kind |-> "edit", line |-> line, items_before |-> its,
                       before |-> its1[line.title], ret |-> r.ret,
                       exc |-> r.exc, lookups |-> r.lookups]]

\* ------------------------------------------------------------ History.show
RECURSIVE minutes_on(_, _, _)
\* lines 155-160 for one title: ep_count * episode_duration summed over the
\* events of one date
minutes_on(timestamps, date, episode_duration) ==
    IF timestamps = <<>> THEN 0
    ELSE (IF timestamps[1][1] = date
          THEN timestamps[1][2] * episode_duration ELSE 0)
         + minutes_on(Tail(timestamps), date, episode_duration)

\* the keys of result: every date some title has an event on
event_dates(its) ==
    UNION {{its[t].timestamps[i][1] : i \in 1..Len(its[t].timestamps)} :
              t \in DOMAIN its}

\* line 154: show calls get_duration_info for every title with events
show_lookups(its) ==
    {its[t].href : t \in {x \in DOMAIN its : Len(its[x].timestamps) # 0}}

RECURSIVE total_minutes(_, _, _)
\* result[date] after the loop of lines 151-160 over the titles in ts
total_minutes(its, ts, date) ==
    IF ts = {} THEN 0
    ELSE LET t == CHOOSE x \in ts : TRUE
         IN (IF Len(its[t].timestamps) = 0 THEN 0
             ELSE minutes_on(its[t].timestamps, date,
                             get_duration_info(its[t].href)[2]))
            + total_minutes(its, ts \ {t}, date)

RECURSIVE sorted(_)
\* sorted(...) of line 165, on the dates
sorted(S) ==
    IF S = {} THEN <<>>
    ELSE LET m == CHOOSE x \in S : \A y \in S : x <= y
         IN <<m>> \o sorted(S \ {m})

RECURSIVE scan_right(_, _, _, _, _)
\* lines 180-182: the pair (right, vals[-1]) after the loop
scan_right(ds, eps, cur, r, v) ==
    IF r >= 0 /\ ds[r + 1] > cur
    THEN scan_right(ds, eps, cur, r - 1, v - eps[r + 1])
    ELSE <<r, v>>

RECURSIVE scan_left_inclusive(_, _, _, _, _, _)
\* the left loop with <= for <: an event exactly span days back is counted
scan_left_inclusive(ds, eps, cur, sp, l, v) ==
    IF l >= 0 /\ cur - ds[l + 1] <= sp
    THEN scan_left_inclusive(ds, eps, cur, sp, l - 1, v + eps[l + 1])
    ELSE <<l, v>>

RECURSIVE scan_left_outside(_, _, _, _, _, _)
\* the left loop with the test inverted: it takes the events outside the
\* window and stops at the first one inside it
scan_left_outside(ds, eps, cur, sp, l, v) ==
    IF l >= 0 /\ cur - ds[l + 1] >= sp
    THEN scan_left_outside(ds, eps, cur, sp, l - 1, v + eps[l + 1])
    ELSE <<l, v>>

RECURSIVE scan_left_after(_, _, _, _, _, _)
\* the left loop with the window laid after the sample date: it takes an
\* event only once the sample date is more than span days before it
scan_left_after(ds, eps, cur, sp, l, v) ==
    IF l >= 0 /\ ds[l + 1] - cur > sp
    THEN scan_left_after(ds, eps, cur, sp, l - 1, v + eps[l + 1])
    ELSE <<l, v>>

RECURSIVE scan_left(_, _, _, _, _, _)
\* lines 183-185: the pair (left, vals[-1]) after the loop
scan_left(ds, eps, cur, sp, l, v) ==
    IF l >= 0 /\ cur - ds[l + 1] < sp
    THEN scan_left(ds, eps, cur, sp, l - 1, v + eps[l + 1])
    ELSE <<l, v>>

\* the whole of keys and vals reversed, the sentinel included
plotted_with_sentinel(ks, vs) ==
    [i \in 1..Len(ks) |-> <<ks[Len(ks) + 1 - i], vs[Len(vs) + 1 - i]>>]

\* keys[1:] and vals[1:]: the sentinel dropped, the order of the scan kept
plotted_newest_first(ks, vs) ==
    [i \in 1..(Len(ks) - 1) |-> <<ks[i + 1], vs[i + 1]>>]

\* keys[:0:-1] zipped with vals[:0:-1]: the points handed to plot_date
plotted(ks, vs) ==
    [i \in 1..(Len(ks) - 1) |-> <<ks[Len(ks) + 1 - i], vs[Len(vs) + 1 - i]>>]

\* show(span=49, step=14), line 223
MainSpan == 49
MainStep == 14

\* ------------------------------------------------------------------ inputs
Seqs(S, n) == UNION {[1..k -> S] : k \in 0..n}

\* every text of at most MaxTokens words over the words edit looks for
Words == {REM, VIEW, PO, EP, NUM(<<7>>), ORD(<<5>>), ORD(<<1, 0>>)}
Texts == Seqs(Words, MaxTokens)

\* the action texts of the log lines fed to the ledger
W == Tok("w", <<>>)
LedgerTexts ==
    { <<REM>>,
      <<W, W>>,
      <<VIEW, NUM(<<3>>), EP>>,
      <<VIEW, ORD(<<1>>), W, ORD(<<2>>), EP>>,
      <<VIEW, W, ORD(<<5>>), PO, ORD(<<1, 0>>), EP>>,
      <<VIEW, W, ORD(<<1, 0>>), PO, ORD(<<5>>), EP>>,
      <<VIEW, ORD(<<1>>), PO, ORD(<<2>>), ORD(<<3>>), EP>>,
      <<VIEW>> }

Links == {<<"A", "/a">>, <<"B", "/b">>, <<"A", None>>}
LedgerDates == {0, 10, 40}

ShowDates == {0, 10, 11, 40}
ShowCounts == {1, 2, 3}
Spans == {1, 30, 49}
Steps == {10, 14, 30}

\* event logs of at most n events in date order
EventLogs(n) ==
    {ts \in Seqs(ShowDates \X ShowCounts, n) :
        \A i \in 1..(Len(ts) - 1) : ts[i][1] <= ts[i + 1][1]}

\* records edit is applied to: a fresh one, one three episodes into its
\* first cycle, and one three episodes into its second
EditItems ==
    { HistoryItem("/a"),
      HistoryItem("/b"),
      [href |-> "/a", timestamps |-> <<<<0, 3>>>>, current_episode |-> 3,
       total_views |-> 0],
      [href |-> "/b", timestamps |-> <<<<0, 3>>>>, current_episode |-> 3,
       total_views |-> 0],
      [href |-> "/a", timestamps |-> <<<<0, 12>>, <<0, 3>>>>,
       current_episode |-> 3, total_views |-> 1] }

\* ----------------------------------------------------------------- actions
Init ==
    /\ items = <<>>
    /\ pc = "ingest"
    /\ processed = 0
    /\ today = 0
    /\ call = NoCall
    /\ span = 0 /\ step = 0
    /\ dates = <<>> /\ episodes = <<>>
    /\ current_date = 0 /\ left = 0 /\ right = 0
    /\ keys = <<>> /\ vals = <<>>
    /\ series = <<>>

\* main, lines 220-221: one more line of the page goes through process
Process ==
    /\ pc = "ingest"
    /\ processed < MaxEntries
    /\ \E link \in Links, action \in LedgerTexts, date \in LedgerDates :
          /\ date >= today
          /\ LET r == process(items, LogLine(link[1], link[2], action, date))
             IN /\ items' = r.items
                /\ call' = r.call
                /\ pc' = IF r.call.exc # "" THEN "crashed" ELSE "ingest"
          /\ today' = date
    /\ processed' = processed + 1
    /\ UNCHANGED showVars

\* History.show, lines 150-175: the daily minutes, sorted, and the sentinel
ShowBegin(sp, st) ==
    /\ pc = "ingest"
    /\ LET ds == sorted(event_dates(items))
           eps == [i \in 1..Len(ds) |->
                      total_minutes(items, DOMAIN items, ds[i])]
       IN IF Len(ds) = 0
          THEN \* kv = [] and kv[0] raises IndexError at line 166
               /\ pc' = "crashed"
               /\ call' = [NoCall EXCEPT !.kind = "show", !.exc = "IndexError",
                                         !.lookups = show_lookups(items)]
               /\ UNCHANGED <<dates, episodes, current_date, left, right,
                              keys, vals>>
          ELSE /\ pc' = "scan"
               /\ call' = [NoCall EXCEPT !.kind = "show",
                                         !.lookups = show_lookups(items)]
               /\ dates' = ds
               /\ episodes' = eps
               /\ current_date' = ds[Len(ds)] + st
               /\ right' = Len(ds) - 1
               /\ left' = Len(ds) - 1
               /\ keys' = <<ds[Len(ds)] + st>>
               /\ vals' = <<0>>
    /\ span' = sp
    /\ step' = st
    /\ UNCHANGED <<items, processed, today, series>>

\* one pass of the while loop of lines 176-185
ShowIter ==
    /\ pc = "scan"
    /\ left >= 0
    /\ LET cur == current_date - step
           r == scan_right(dates, episodes, cur, right, vals[Len(vals)])
           l == scan_left(dates, episodes, cur, span, left, r[2])
       IN /\ current_date' = cur
          /\ keys' = Append(keys, cur)
          /\ right' = r[1]
          /\ left' = l[1]
          /\ vals' = Append(vals, l[2])
    /\ UNCHANGED <<items, pc, processed, today, call, span, step, dates,
                   episodes, series>>

\* lines 187-192: the loop has ended and the series goes to the renderer
ShowPlot ==
    /\ pc = "scan"
    /\ left < 0
    /\ series' = plotted(keys, vals)
    /\ pc' = "done"
    /\ UNCHANGED <<items, processed, today, call, span, step, dates, episodes,
                   current_date, left, right, keys, vals>>

Next ==
    \/ Process
    \/ ShowBegin(MainSpan, MainStep)
    \/ ShowIter
    \/ ShowPlot

Spec == Init /\ [][Next]_vars

\* ----------------------------------------- edit applied to a single record
InitEdit ==
    /\ \E item \in EditItems, action \in Texts :
          /\ items = [t \in {"A"} |-> item]
          /\ call = [NoCall EXCEPT !.kind = "pending",
                                   !.line = LogLine("A", item.href, action, 10),
                                   !.items_before = [t \in {"A"} |-> item],
                                   !.before = item]
    /\ pc = "edit"
    /\ processed = 0
    /\ today = 10
    /\ span = 0 /\ step = 0
    /\ dates = <<>> /\ episodes = <<>>
    /\ current_date = 0 /\ left = 0 /\ right = 0
    /\ keys = <<>> /\ vals = <<>>
    /\ series = <<>>

EditCall ==
    /\ pc = "edit"
    /\ LET r == process(items, call.line)
       IN /\ items' = r.items
          /\ call' = r.call
          /\ pc' = IF r.call.exc # "" THEN "crashed" ELSE "edited"
    /\ processed' = processed + 1
    /\ UNCHANGED <<today>>
    /\ UNCHANGED showVars

NextEdit == EditCall

SpecEdit == InitEdit /\ [][NextEdit]_vars

\* ------------------------------------- show applied to drawn event logs
InitShow ==
    /\ \E a \in EventLogs(MaxEvents), b \in {<<>>, <<<<10, 1>>>>} :
          items = [t \in {"A", "B"} |->
                     IF t = "A"
                     THEN [HistoryItem("/a") EXCEPT !.timestamps = a]
                     ELSE [HistoryItem("/b") EXCEPT !.timestamps = b]]
    /\ pc = "ingest"
    /\ processed = 0
    /\ today = 0
    /\ call = NoCall
    /\ span = 0 /\ step = 0
    /\ dates = <<>> /\ episodes = <<>>
    /\ current_date = 0 /\ left = 0 /\ right = 0
    /\ keys = <<>> /\ vals = <<>>
    /\ series = <<>>

ShowCall == \E sp \in Spans, st \in Steps : ShowBegin(sp, st)

NextShow ==
    \/ ShowCall
    \/ ShowIter
    \/ ShowPlot

SpecShow == InitShow /\ [][NextShow]_vars

\* show runs to its end once called: the program is one thread and nothing
\* suspends the loop of lines 176-185 or the plotting after it
SpecShowFair == InitShow /\ [][NextShow]_vars /\ WF_vars(ShowIter \/ ShowPlot)

\* ============================================================ properties
\* What a text says, read off its words.
SaysRemoved(a) == \E i \in DOMAIN a : a[i] = REM
SaysViewed(a) == \E i \in DOMAIN a : a[i] = VIEW
CountAt(a) == {i \in DOMAIN a : a[i].k = "num" /\ i < Len(a) /\ a[i + 1] = EP}
OrdinalAt(a) == {i \in DOMAIN a : a[i].k = "ord"}
SaysRange(a) == \E i \in DOMAIN a : a[i] = PO /\ 1 < i /\ i < Len(a)
Least(S) == CHOOSE x \in S : \A y \in S : x <= y

\* the number a numeral of the texts stands for
Stated(d) ==
    CASE d = <<1>> -> 1 [] d = <<2>> -> 2 [] d = <<3>> -> 3 [] d = <<5>> -> 5
      [] d = <<7>> -> 7 [] d = <<1, 0>> -> 10

\* the five patterns of the classification, in priority order
IsRemoval(a) == SaysRemoved(a)
IsNonViewing(a) == ~SaysRemoved(a) /\ ~SaysViewed(a)
IsCount(a) == ~SaysRemoved(a) /\ SaysViewed(a) /\ CountAt(a) # {}
IsOrdinal(a) ==
    ~SaysRemoved(a) /\ SaysViewed(a) /\ CountAt(a) = {} /\ OrdinalAt(a) # {}
IsFallback(a) ==
    ~SaysRemoved(a) /\ SaysViewed(a) /\ CountAt(a) = {} /\ OrdinalAt(a) = {}

\* the last step was a call of edit; Before and After are the record on
\* entry and on exit
Edited == call.kind = "edit"
Action == call.line.action
Before == call.before
After == items[call.line.title]
TotalEpisodes == INFO_CACHE[Before.href][1]

\* C1: a fallback completion on a title whose total is positive appends
\* (date, total - current_episode), resets current_episode to 0, adds one to
\* completed_cycles and returns CycleCompleted with that delta and the new
\* completed_cycles.
C1_FallbackCompletion ==
    (Edited /\ IsFallback(Action) /\ TotalEpisodes > 0) =>
        LET delta == TotalEpisodes - Before.current_episode
        IN /\ call.exc = ""
           /\ After.timestamps =
                 Append(Before.timestamps, <<call.line.date, delta>>)
           /\ After.current_episode = 0
           /\ After.total_views = Before.total_views + 1
           /\ call.ret = <<2, delta, Before.total_views + 1>>

\* three episodes into a 12-episode title, the completion reports delta 9
C1_Witness ==
    /\ Edited /\ IsFallback(Action)
    /\ TotalEpisodes = 12 /\ Before.current_episode = 3
    /\ call.ret = <<2, 9, 1>>
    /\ After.current_episode = 0

\* C2: after an edit whose text holds the removal phrase the event log is
\* empty and current_episode is 0, whatever the record held, and the outcome
\* is Removed.
C2_RemovalClears ==
    (Edited /\ SaysRemoved(Action)) =>
        /\ call.exc = ""
        /\ call.ret = <<-1>>
        /\ After.timestamps = <<>>
        /\ After.current_episode = 0

C2_Witness ==
    /\ Edited /\ SaysRemoved(Action)
    /\ Before.timestamps # <<>> /\ Before.current_episode # 0
    /\ After.timestamps = <<>> /\ After.current_episode = 0

\* C3 as stated: a removal leaves completed_cycles as it was.
C3_RemovalKeepsCycles ==
    (Edited /\ SaysRemoved(Action)) =>
        After.total_views = Before.total_views

\* C3 amended: a removal resets completed_cycles to 0, so the first
\* completion after a removal reports completed_cycles = 1.
C3_RemovalResetsCycles ==
    /\ (Edited /\ SaysRemoved(Action)) => After.total_views = 0
    /\ (Edited /\ call.exc = "" /\ IsFallback(Action)
          /\ Before.timestamps = <<>>) => call.ret[3] = 1

C3_Witness ==
    /\ Edited /\ SaysRemoved(Action)
    /\ Before.total_views > 0
    /\ After.total_views = 0

\* the ordinals of a text, as the numbers they state, in text order
RECURSIVE StatedOrdinals(_)
StatedOrdinals(a) ==
    IF a = <<>> THEN <<>>
    ELSE (IF a[1].k = "ord" THEN <<Stated(a[1].d)>> ELSE <<>>)
         \o StatedOrdinals(Tail(a))

Completed == call.exc = "" /\ Len(call.ret) = 3 /\ call.ret[1] = 2
CannotComplete == call.exc = "Trying to complete on-going anime"
Malformed == call.exc = "Invalid action (episode range)"

\* C4: the classification takes the first matching pattern in the order
\* removal, non-viewing, explicit count, ordinals, fallback: a text with the
\* removal phrase is Removed whatever else it holds, a text with a count and
\* ordinals takes its delta from the count, and the fallback is taken exactly
\* when none of the four earlier patterns matches.
C4_PriorityOrder ==
    Edited =>
        /\ SaysRemoved(Action) => call.ret = <<-1>>
        /\ (~SaysRemoved(Action) /\ ~SaysViewed(Action)) => call.ret = <<0>>
        /\ (~SaysRemoved(Action) /\ SaysViewed(Action) /\ CountAt(Action) # {})
              => call.ret = <<1, Stated(Action[Least(CountAt(Action))].d)>>
        /\ IsOrdinal(Action) =>
              \/ Malformed
              \/ call.exc = "" /\ Len(call.ret) = 2 /\ call.ret[1] = 1
        /\ (Completed \/ CannotComplete) <=> IsFallback(Action)

\* a removal text that also holds a viewing phrase, a count and an ordinal
C4_Witness ==
    /\ Edited
    /\ SaysRemoved(Action) /\ SaysViewed(Action)
    /\ CountAt(Action) # {} /\ OrdinalAt(Action) # {}
    /\ call.ret = <<-1>>

\* C5: an explicit count or ordinal edit with delta d appends exactly
\* (date, d), adds d to current_episode, leaves completed_cycles alone and
\* returns PartialProgress{d}; for an explicit count d is the stated integer.
C5_PartialProgress ==
    (Edited /\ (IsCount(Action) \/ IsOrdinal(Action)) /\ ~Malformed) =>
        /\ call.exc = ""
        /\ Len(call.ret) = 2 /\ call.ret[1] = 1
        /\ After.timestamps =
              Append(Before.timestamps, <<call.line.date, call.ret[2]>>)
        /\ After.current_episode = Before.current_episode + call.ret[2]
        /\ After.total_views = Before.total_views
        /\ IsCount(Action) =>
              call.ret[2] = Stated(Action[Least(CountAt(Action))].d)

\* "7 episodes" seen three episodes into the cycle
C5_Witness ==
    /\ Edited /\ IsCount(Action)
    /\ Before.current_episode = 3
    /\ call.ret = <<1, 7>>
    /\ After.current_episode = 10
    /\ Len(After.timestamps) = Len(Before.timestamps) + 1

\* a range action: ordinal markers together with the range connective
IsRangeAction(a) == IsOrdinal(a) /\ SaysRange(a)
Larger(x, y) == IF x >= y THEN x ELSE y
Smaller(x, y) == IF x >= y THEN y ELSE x

\* C6: a range action with exactly two ordinals has delta high - low + 1,
\* in whichever order the two appear; with any other number of ordinals it is
\* rejected as malformed.
C6_RangeDelta ==
    (Edited /\ IsRangeAction(Action)) =>
        LET o == StatedOrdinals(Action)
        IN IF Len(o) = 2
           THEN call.ret = <<1, Larger(o[1], o[2]) - Smaller(o[1], o[2]) + 1>>
           ELSE Malformed

\* C7 as stated: without a range connective the delta is the number of
\* distinct ordinals of the text.
C7_DistinctOrdinals ==
    (Edited /\ IsOrdinal(Action) /\ ~SaysRange(Action)) =>
        call.ret =
          <<1, Cardinality({Action[i].d : i \in OrdinalAt(Action)})>>

\* C7 amended: without a range connective the delta is the number of ordinal
\* markers in the text, a repeated ordinal counted every time it appears.
C7_OrdinalOccurrences ==
    (Edited /\ IsOrdinal(Action) /\ ~SaysRange(Action)) =>
        call.ret = <<1, Cardinality(OrdinalAt(Action))>>

\* the same ordinal twice
C7_Witness ==
    /\ Edited /\ IsOrdinal(Action) /\ ~SaysRange(Action)
    /\ Cardinality(OrdinalAt(Action)) = 2
    /\ Cardinality({Action[i].d : i \in OrdinalAt(Action)}) = 1
    /\ call.ret = <<1, 2>>

Events == UNION {{<<t, i>> : i \in 1..Len(items[t].timestamps)} :
                    t \in DOMAIN items}
EventDate(e) == items[e[1]].timestamps[e[2]][1]
EventMinutes(e) ==
    items[e[1]].timestamps[e[2]][2] * INFO_CACHE[items[e[1]].href][2]

RECURSIVE MinutesOf(_)
MinutesOf(E) ==
    IF E = {} THEN 0
    ELSE LET e == CHOOSE x \in E : TRUE
         IN EventMinutes(e) + MinutesOf(E \ {e})

\* the events in the window of sample date c, and their minutes summed
\* directly
InWindow(c) == {e \in Events : EventDate(e) <= c /\ c - EventDate(e) < span}
DirectSum(c) == MinutesOf(InWindow(c))

Scanning == pc = "scan" \/ pc = "done"
FirstDate == Least({EventDate(e) : e \in Events})
LastDate == CHOOSE d \in {EventDate(e) : e \in Events} :
                \A e \in Events : EventDate(e) <= d

\* C9: every sample (c, v) the scan emits has v equal to the direct sum of
\* the minutes of the events dated d with d <= c and c - d < span; an event
\* exactly span days before c is left out, one a day closer is counted.
C9_WindowSum ==
    /\ Scanning => \A i \in 2..Len(keys) : vals[i] = DirectSum(keys[i])
    /\ pc = "done" =>
          \A i \in 1..Len(series) : series[i][2] = DirectSum(series[i][1])

\* a sample with one event exactly span days back and one a day closer
C9_Witness ==
    /\ pc = "done"
    /\ \E i \in 1..Len(series), e1 \in Events, e2 \in Events :
          /\ series[i][1] - EventDate(e1) = span
          /\ series[i][1] - EventDate(e2) = span - 1
          /\ e1 \notin InWindow(series[i][1])
          /\ e2 \in InWindow(series[i][1])
          /\ series[i][2] = EventMinutes(e2)

SeriesDates == {series[i][1] : i \in 1..Len(series)}

\* C10 as stated: the series has a sample at every sample date
\* last_date - k*step that is not before the earliest event date.
C10_ReachesFirstEvent ==
    pc = "done" =>
        \A k \in 0..(LastDate - FirstDate) :
            LastDate - k * step >= FirstDate =>
                LastDate - k * step \in SeriesDates

\* the first k whose sample date is less than span days after date d
RECURSIVE FirstWithin(_, _)
FirstWithin(k, d) ==
    IF LastDate - k * step - d < span THEN k ELSE FirstWithin(k + 1, d)

Scenario ==
    /\ DOMAIN items = {"A", "B"}
    /\ items["A"].timestamps = <<<<0, 2>>, <<10, 1>>, <<40, 3>>>>
    /\ items["B"].timestamps = <<>>
    /\ span = 30 /\ step = 10

\* C10 amended: the series holds exactly the sample dates last_date - k*step
\* for k = 0..K, K being the first k whose sample date is less than span days
\* after the earliest event date, each with the direct window sum; for the
\* events (0, 60), (10, 30), (40, 90) with span 30 and step 10 these are the
\* days 20, 30 and 40 with 90, 30 and 90 minutes.
C10_StopsWithinSpanOfFirst ==
    pc = "done" =>
        LET K == FirstWithin(0, FirstDate)
        IN /\ Len(series) = K + 1
           /\ \A i \in 1..(K + 1) :
                 /\ series[i][1] = LastDate - (K + 1 - i) * step
                 /\ series[i][2] = DirectSum(series[i][1])
           /\ Scenario => series = <<<<20, 90>>, <<30, 30>>, <<40, 90>>>>

C10_Witness ==
    /\ pc = "done"
    /\ Scenario
    /\ series = <<<<20, 90>>, <<30, 30>>, <<40, 90>>>>

\* C11: when the ledger holds no dated event (nothing processed, or every
\* event log empty), show ends without failing and with an empty result.
C11_EmptyShow ==
    (call.kind = "show" /\ Events = {}) =>
        /\ call.exc = ""
        /\ pc # "crashed"
        /\ series = <<>>

\* the known total of a title of the ledger
TotalOf(t) == INFO_CACHE[items[t].href][1]

\* C12 as stated: for a title whose total is known and positive,
\* current_episode never exceeds the total.
C12_WithinTotal ==
    \A t \in DOMAIN items :
        TotalOf(t) > 0 => items[t].current_episode <= TotalOf(t)

\* C12 amended: current_episode is not held below the total.  An explicit
\* count or ordinal edit that returns is always PartialProgress: it adds its
\* delta to current_episode and leaves completed_cycles alone, also when
\* that carries current_episode past a known positive total; the completion
\* path is taken by the fallback pattern only.
C12_NoRoutingToCompletion ==
    /\ (Edited /\ call.exc = "" /\ (IsCount(Action) \/ IsOrdinal(Action))) =>
          /\ Len(call.ret) = 2 /\ call.ret[1] = 1
          /\ After.current_episode = Before.current_episode + call.ret[2]
          /\ After.total_views = Before.total_views
    /\ (Edited /\ Completed) => IsFallback(Action)

\* a partial progress that leaves current_episode above the total
C12_Witness ==
    /\ Edited /\ (IsCount(Action) \/ IsOrdinal(Action))
    /\ TotalEpisodes > 0
    /\ Before.current_episode <= TotalEpisodes
    /\ After.current_episode > TotalEpisodes
    /\ call.ret[1] = 1

\* C13: in every reachable state current_episode >= 0 and
\* completed_cycles >= 0 for every title.
C13_NonNegative ==
    \A t \in DOMAIN items :
        items[t].current_episode >= 0 /\ items[t].total_views >= 0

\* C14: from one edit to the next current_episode never decreases except at
\* a removal or a cycle completion, and it is 0 right after each of those.
C14_MonotoneWithinCycle ==
    (Edited /\ call.exc = "") =>
        IF SaysRemoved(Action) \/ Completed
        THEN After.current_episode = 0
        ELSE After.current_episode >= Before.current_episode

\* C15: process on a line without a link returns without error, creates no
\* record and leaves every record and the key set of the ledger as they
\* were.
C15_SkipsLineWithoutLink ==
    (call.kind \in {"skip", "edit"} /\ call.line.href = None) =>
        /\ call.kind = "skip"
        /\ call.ret = <<>>
        /\ call.exc = ""
        /\ pc # "crashed"
        /\ DOMAIN items = DOMAIN call.items_before
        /\ \A t \in DOMAIN items : items[t] = call.items_before[t]

\* a line without a link, for a title the ledger does not hold, met while
\* the ledger holds another title with events
C15_Witness ==
    /\ call.kind = "skip"
    /\ call.line.title \notin DOMAIN items
    /\ \E t \in DOMAIN items : items[t].timestamps # <<>>
    /\ items = call.items_before

\* C16: an edit whose text holds neither the removal phrase nor a viewing
\* phrase returns Ignored, leaves the event log, current_episode and
\* completed_cycles as they were, and does not call the Duration Lookup.
C16_IgnoredChangesNothing ==
    (Edited /\ ~SaysRemoved(Action) /\ ~SaysViewed(Action)) =>
        /\ call.exc = ""
        /\ call.ret = <<0>>
        /\ After.timestamps = Before.timestamps
        /\ After.current_episode = Before.current_episode
        /\ After.total_views = Before.total_views
        /\ call.lookups = {}

\* a text with a count and an ordinal but no viewing phrase, on a record
\* that holds progress and a completed cycle
C16_Witness ==
    /\ Edited /\ ~SaysRemoved(Action) /\ ~SaysViewed(Action)
    /\ CountAt(Action) # {} /\ OrdinalAt(Action) # {}
    /\ Before.current_episode = 3 /\ Before.total_views = 1
    /\ call.ret = <<0>>
    /\ After = Before

\* C17: the series handed to the renderer is in strictly ascending date
\* order, consecutive sample dates exactly step days apart, its newest
\* sample dated at the last event date, and the zero-valued sentinel at
\* last_date + step is not part of it.
C17_AscendingSeries ==
    pc = "done" =>
        /\ Len(series) = Len(keys) - 1
        /\ \A i \in 1..(Len(series) - 1) :
              /\ series[i][1] < series[i + 1][1]
              /\ series[i + 1][1] - series[i][1] = step
        /\ series[Len(series)][1] = LastDate
        /\ \A i \in 1..Len(series) : series[i][1] # LastDate + step

\* a series of several samples whose scan began at the sentinel
C17_Witness ==
    /\ pc = "done"
    /\ Len(series) >= 3
    /\ keys[1] = LastDate + step /\ vals[1] = 0
    /\ series[Len(series)][1] = LastDate
    /\ series[1][1] < series[2][1]

\* the passes of the loop made so far
Passes == Len(keys) - 1

\* C18: for any non-empty sorted event list and any positive span and step,
\* step >= span included, the sampling loop ends: left drops below 0 after
\* at most K + 1 passes (K the first k whose sample date is less than span
\* days after the earliest event), and both pointers stay within
\* -1 .. len(dates) - 1 throughout.
C18_ScanTerminates ==
    /\ [](pc = "scan" =>
            /\ span > 0 /\ step > 0
            /\ left \in -1..(Len(dates) - 1)
            /\ right \in -1..(Len(dates) - 1)
            /\ Passes <= FirstWithin(0, FirstDate) + 1
            /\ left >= 0 => Passes <= FirstWithin(0, FirstDate))
    /\ (pc = "scan") ~> (pc = "done" /\ left < 0)

\* the loop has ended after several passes with step >= span
C18_Witness ==
    /\ pc = "done"
    /\ step >= span
    /\ left = -1
    /\ Passes >= 3

\* the episode deltas of an event log, added up
RECURSIVE SumDeltas(_)
SumDeltas(ts) ==
    IF ts = <<>> THEN 0 ELSE ts[Len(ts)][2] + SumDeltas(SubSeq(ts, 1, Len(ts) - 1))

\* C19: for a title with a fixed positive total_episode_count, after any
\* sequence of successful edits (partial progress, completions, removals,
\* ignored entries) the episode deltas of event_log add up to
\* completed_cycles * total_episode_count + current_episode.
C19_Accounting ==
    \A t \in DOMAIN items :
        TotalOf(t) > 0 =>
            SumDeltas(items[t].timestamps) =
                items[t].total_views * TotalOf(t) + items[t].current_episode

\* a cycle completed from the middle and a new one begun: partial progress,
\* a completion logging the rest of the total, partial progress again
C19_Witness ==
    /\ Edited /\ call.exc = ""
    /\ TotalEpisodes > 0
    /\ Len(After.timestamps) = 3
    /\ After.timestamps[1][2] > 0
    /\ After.timestamps[2][2] = TotalEpisodes - After.timestamps[1][2]
    /\ After.total_views = 1
    /\ After.current_episode = After.timestamps[3][2]
    /\ After.current_episode > 0

\* C20: with positive span and step, left <= right at the end of every pass
\* of the outer loop, so every event whose minutes have been subtracted had
\* them added in the same pass or an earlier one; hence when all daily
\* minutes are non-negative no emitted sample value is negative.
C20_LeftBehindRight ==
    Scanning =>
        /\ span > 0 /\ step > 0
        /\ left <= right
        /\ \A i \in 1..Len(dates) : i > right + 1 => i > left + 1
        /\ (\A i \in 1..Len(dates) : episodes[i] >= 0) =>
               /\ \A i \in 2..Len(vals) : vals[i] >= 0
               /\ pc = "done" => \A i \in 1..Len(series) : series[i][2] >= 0

\* in the middle of a scan the newest event has been subtracted again while
\* older ones are in the window and the oldest is still to come
C20_Witness ==
    /\ pc = "scan"
    /\ Passes >= 2
    /\ 0 <= left /\ left < right /\ right < Len(dates) - 1
    /\ vals[Len(vals)] > 0
====
